---- MODULE Spec2Model ----
(***************************************************************************)
(* Model of the PopGen simulation driver (src/pop_gen.py): the instance    *)
(* fields, run, calc_generation, and the transforms calc_generation calls. *)
(* The transforms live in modules that pop_gen.py imports; they are        *)
(* modelled by the contracts spec.md gives them, as sets of the outcomes   *)
(* a call may produce.                                                     *)
(***************************************************************************)
EXTENDS Integers, Sequences, FiniteSets, TLC

\* ---------------------------------------------------------------- bounds
\* Largest population total the model follows.
MaxN == 3
\* Largest number of history entries the model follows.
MaxHist == 2

\* ---------------------------------------------------------------- values
\* Python's None.  Optional integers are None or <<n>>; rates are None or
\* a fraction <<num, den>>; genotype data is None or a function over Genotypes.
None == <<>>

Some(n) == <<n>>

Val(o) == o[1]

Genotypes == {"AA", "aa"}

\* GenotypeData: a count per genotype.
GenotypeData == {d \in [Genotypes -> 0..MaxN] : d["AA"] + d["aa"] <= MaxN}

\* Inputs the caller draws from.
InitialData == {[g \in Genotypes |-> IF g = "AA" THEN 2 ELSE 1],
                [g \in Genotypes |-> IF g = "AA" THEN 1 ELSE 0]}

GrowthRates == {<<-1, 2>>, <<0, 1>>, <<1, 1>>}

CarryingCapacities == {None, Some(2)}

DriftRates == {<<0, 1>>, <<1, 2>>}

MutationRates == {None, <<1, 10>>}

GenerationCounts == 0..MaxHist

\* The i a caller passes to calc_generation directly.
CallIndices == {0, 1}

\* The <<bottleneck_yr, bottleneck_N>> a caller passes: neither, one without
\* the other, and both, for two years and two sizes, and a year before 0.
BottleneckArgs == {<<None, None>>, <<Some(0), None>>, <<None, Some(1)>>,
                   <<Some(0), Some(0)>>, <<Some(0), Some(1)>>,
                   <<Some(1), Some(1)>>, <<Some(-1), Some(1)>>}

VARIABLES
    growth_rate,          \* self.growth_rate, a fraction <<num, den>>
    carrying_capacity,    \* self.carrying_capacity, None or <<C>>
    max_drift,            \* self.max_drift, a fraction
    mutation_rate,        \* self.mutation_rate, None or a fraction
    genotype_data,        \* self.genotype_data, None or GenotypeData
    gens_genotype_data,   \* self._gens_genotype_data, the history
    pc,                   \* "idle"; "run": at the head of run's loop; "calc": at the
                          \* end of calc_generation's body
    frame,                \* run's frame: its arguments, its i, what it found on entry,
                          \* and the calls it made, the results they produced and the
                          \* i at which the override ran; None outside run
    cur,                  \* the calc_generation invocation in progress; None outside
    trace,                \* the transform applications of that invocation, in order
    last_call,            \* the caller's last call: "none", "run" or "calc_generation"
    raised,               \* the exception that call ended with, "none" without one
    invoked,              \* how many times calc_generation was entered
    runs_sum,             \* <<g1 + ... + gk>> while every call so far was a run that
                          \* returned, g1..gk their generations; None otherwise
    completed,            \* how many calc_generation calls ran to their end
    conc                  \* the interleaved calc_generation invocations of SpecConc;
                          \* None where calls are made one at a time

vars == <<growth_rate, carrying_capacity, max_drift, mutation_rate,
          genotype_data, gens_genotype_data, pc, frame, cur, trace, last_call,
          raised, invoked, runs_sum, completed, conc>>

params == <<growth_rate, carrying_capacity, max_drift, mutation_rate>>

\* ------------------------------------------------ the imported transforms
\* calc_N: the total count over all genotypes.
calc_N(d) == d["AA"] + d["aa"]

\* Python's round() of the fraction x/den (den > 0): to nearest, ties to even.
RoundHalfEven(x, den) ==
    LET q == x \div den
        r == x % den
    IN  IF 2 * r < den THEN q
        ELSE IF 2 * r > den THEN q + 1
        ELSE IF q % 2 = 0 THEN q ELSE q + 1

Min(a, b) == IF a < b THEN a ELSE b

Max(a, b) == IF a > b THEN a ELSE b

\* calc_next_N: round(N * (1 + growth_rate)), clamped to the carrying capacity
\* when one is set, and never below 0.
calc_next_N(N, rate, capacity) ==
    LET grown == RoundHalfEven(N * (rate[2] + rate[1]), rate[2])
        capped == IF capacity = None THEN grown ELSE Min(grown, Val(capacity))
    IN  Max(capped, 0)

\* The genotype data with total count n.
Compositions(n) == {d \in GenotypeData : calc_N(d) = n}

\* The fitness value attached to each genotype.
Fitness == [g \in Genotypes |-> IF g = "AA" THEN 2 ELSE 1]

\* adj_by_fitness: re-weights each count by its genotype's fitness and
\* renormalises to the total it was given; deterministic.
adj_by_fitness(d) ==
    LET N == calc_N(d)
        weighted == Fitness["AA"] * d["AA"] + Fitness["aa"] * d["aa"]
        nAA == IF weighted = 0 THEN 0
               ELSE RoundHalfEven(N * Fitness["AA"] * d["AA"], weighted)
    IN  {[g \in Genotypes |-> IF g = "AA" THEN nAA ELSE N - nAA]}

\* adj_by_drift: no-op at rate 0, else a random reshaping, the total preserved.
adj_by_drift(d, rate, N, capacity) ==
    IF rate[1] = 0 THEN {d} ELSE Compositions(calc_N(d))

\* calc_next_genotypes_data: a resampling with exactly targetN individuals.
calc_next_genotypes_data(d, targetN) == Compositions(targetN)

\* adj_by_mutation: no-op when the rate is None, else a random reshaping,
\* the total preserved.
adj_by_mutation(d, rate) ==
    IF rate = None THEN {d} ELSE Compositions(calc_N(d))

\* One entry of the trace: a step of calc_generation, the data it was given and
\* the data it left; n is the size the step took or computed (for the append,
\* the history's length after it), rate the rate it took.
Step(op, in, out, rate, n) ==
    [op |-> op, in |-> in, out |-> out, rate |-> rate, n |-> n]

\* ------------------------------------------------------------ PopGen
\* __init__
Init ==
    /\ growth_rate = <<0, 1>>
    /\ carrying_capacity = None
    /\ max_drift = <<0, 1>>
    /\ mutation_rate = None
    /\ genotype_data = None
    /\ gens_genotype_data = <<>>
    /\ pc = "idle"
    /\ frame = None
    /\ cur = None
    /\ trace = <<>>
    /\ last_call = "none"
    /\ raised = "none"
    /\ invoked = 0
    /\ runs_sum = Some(0)
    /\ completed = 0
    /\ conc = None

\* Mutant: the guard tests the history list, which is never None.
data_missing_tests_history(gd) == FALSE

\* run's guard, line 55: self.genotype_data is None
data_missing(gd) == gd = None

\* Mutant: the snapshot is inserted at the front of the list.
history_prepend(h, gd) == <<gd>> \o h

\* Mutant: the list is replaced by a new one holding the snapshot only.
history_replace(h, gd) == <<gd>>

\* Mutant: a snapshot equal to one the history holds is not appended again.
history_append_unless_present(h, gd) ==
    IF \E k \in 1..Len(h) : h[k] = gd THEN h ELSE Append(h, gd)

\* self._gens_genotype_data.append(self.genotype_data)
history_append(h, gd) == Append(h, gd)

\* self._gens_genotype_data[-1]
last_entry(h) == h[Len(h)]

\* Mutant: the bottleneck holds from its year on.
year_matches_from_year(bottleneck_yr, i) ==
    IF bottleneck_yr = None THEN FALSE ELSE Val(bottleneck_yr) <= i

\* bottleneck_yr == i: Python's == of None and an integer is False.
year_matches(bottleneck_yr, i) ==
    IF bottleneck_yr = None THEN FALSE ELSE Val(bottleneck_yr) = i

\* Mutant: the comparison is written the wrong way round.
exceeds_reversed(next_N, bottleneck_N) ==
    IF bottleneck_N = None THEN "TypeError"
    ELSE IF next_N < Val(bottleneck_N) THEN "yes" ELSE "no"

\* Mutant: >= in place of >.
exceeds_or_equal(next_N, bottleneck_N) ==
    IF bottleneck_N = None THEN "TypeError"
    ELSE IF next_N >= Val(bottleneck_N) THEN "yes" ELSE "no"

\* next_N > bottleneck_N: Python raises TypeError comparing an int with None.
exceeds(next_N, bottleneck_N) ==
    IF bottleneck_N = None THEN "TypeError"
    ELSE IF next_N > Val(bottleneck_N) THEN "yes" ELSE "no"

\* bottleneck_yr == i and next_N > bottleneck_N, `and` evaluating its right
\* operand only when the left one is true.
bottleneck_test(i, bottleneck_yr, bottleneck_N, next_N) ==
    IF year_matches(bottleneck_yr, i) THEN exceeds(next_N, bottleneck_N) ELSE "no"

\* Mutant: the rate is taken after next_N = bottleneck_N, where it is
\* 1 - bottleneck_N / bottleneck_N = 0.
bottleneck_rate_after_overwrite(bottleneck_N, next_N) == <<0, 1>>

\* 1 - bottleneck_N / next_N, as a fraction; Python raises ZeroDivisionError
\* for next_N = 0, which bottleneck_step tests before it takes the rate.
bottleneck_rate(bottleneck_N, next_N) == <<next_N - bottleneck_N, next_N>>

\* Mutant: the carrying capacity is not passed on.
natural_next_N_uncapped(curr) == calc_next_N(calc_N(curr), growth_rate, None)

\* Mutant: the size counts one genotype instead of all.
natural_next_N_one_genotype(curr) ==
    calc_next_N(curr["AA"], growth_rate, carrying_capacity)

\* Mutant: the next size is kept at 1 or more.
natural_next_N_at_least_one(curr) ==
    Max(1, calc_next_N(calc_N(curr), growth_rate, carrying_capacity))

\* Line 73: the natural next size, from the data entering the generation.
natural_next_N(curr) == calc_next_N(calc_N(curr), growth_rate, carrying_capacity)

\* Line 82: next_N = bottleneck_N
bottleneck_target(bottleneck_N, next_N) == bottleneck_N

\* calc_N(None): the size calculator fails on data that holds no counts.
calc_N_fails(d) == d = None

\* Mutant: mutation is applied to the adjusted data before the synthesizer.
next_generation_mutation_first(curr, next_N, steps) ==
    \E mutated \in adj_by_mutation(curr, mutation_rate) :
        \E synth \in calc_next_genotypes_data(mutated, next_N) :
            /\ genotype_data' = synth
            /\ trace' = steps \o
                   <<Step("adj_by_mutation", curr, mutated, mutation_rate,
                          calc_N(mutated)),
                     Step("calc_next_genotypes_data", mutated, synth, None, next_N)>>
            /\ raised' = "none"

\* Mutant: the result of adj_by_mutation is not assigned to genotype_data.
next_generation_mutation_dropped(curr, next_N, steps) ==
    \E synth \in calc_next_genotypes_data(curr, next_N) :
        \E mutated \in adj_by_mutation(synth, mutation_rate) :
            /\ genotype_data' = synth
            /\ trace' = steps \o
                   <<Step("calc_next_genotypes_data", curr, synth, None, next_N),
                     Step("adj_by_mutation", synth, mutated, mutation_rate,
                          calc_N(mutated))>>
            /\ raised' = "none"

\* Lines 85-86 of calc_generation: the synthesizer at the target size, then
\* mutation; the result becomes genotype_data.
next_generation(curr, next_N, steps) ==
    \E synth \in calc_next_genotypes_data(curr, next_N) :
        \E mutated \in adj_by_mutation(synth, mutation_rate) :
            /\ genotype_data' = mutated
            /\ trace' = steps \o
                   <<Step("calc_next_genotypes_data", curr, synth, None, next_N),
                     Step("adj_by_mutation", synth, mutated, mutation_rate,
                          calc_N(mutated))>>
            /\ raised' = "none"

\* Lines 80-82 of calc_generation: the bottleneck override, then the rest.
bottleneck_step(i, bottleneck_yr, bottleneck_N, curr, next_N, steps) ==
    LET test == bottleneck_test(i, bottleneck_yr, bottleneck_N, next_N)
    IN  IF test = "TypeError"
        THEN /\ raised' = "TypeError"
             /\ trace' = steps
             /\ UNCHANGED genotype_data
        ELSE IF test = "yes" /\ next_N = 0
        THEN /\ raised' = "ZeroDivisionError"
             /\ trace' = steps
             /\ UNCHANGED genotype_data
        ELSE IF test = "yes"
        THEN LET rate == bottleneck_rate(Val(bottleneck_N), next_N)
             IN  \E drifted \in adj_by_drift(curr, rate, Val(bottleneck_N),
                                             carrying_capacity) :
                     next_generation(drifted,
                         bottleneck_target(Val(bottleneck_N), next_N),
                         Append(steps, Step("adj_by_drift", curr, drifted, rate,
                                            Val(bottleneck_N))))
        ELSE next_generation(curr, next_N, steps)

\* Mutant: the bottleneck's rate is kept in self.max_drift.
parameters_max_drift_stored ==
    /\ max_drift' = <<1, 2>>
    /\ UNCHANGED <<growth_rate, carrying_capacity, mutation_rate>>

\* Lines 70-86 assign to no attribute of self but genotype_data; the history is
\* changed in place by the append of line 70.
parameters_kept == UNCHANGED params

\* calc_generation(i, bottleneck_yr, bottleneck_N), lines 70-86
calc_generation(i, bottleneck_yr, bottleneck_N) ==
    LET appended == history_append(gens_genotype_data, genotype_data)
        curr == last_entry(appended)
    IN  /\ Len(gens_genotype_data) < MaxHist
        /\ gens_genotype_data' = appended
        /\ invoked' = invoked + 1
        /\ parameters_kept
        /\ IF calc_N_fails(curr)
           THEN /\ raised' = "InvalidDataError"
                /\ trace' = <<Step("append", genotype_data, curr, None, Len(appended))>>
                /\ UNCHANGED genotype_data
           ELSE LET next_N == natural_next_N(curr)
                IN  /\ next_N <= MaxN
                    /\ \E fit \in adj_by_fitness(curr) :
                         \E drifted \in adj_by_drift(fit, max_drift, calc_N(fit),
                                                     carrying_capacity) :
                             bottleneck_step(i, bottleneck_yr, bottleneck_N, drifted, next_N,
                                 <<Step("append", genotype_data, curr, None,
                                        Len(appended)),
                                   Step("calc_next_N", curr, curr, growth_rate, next_N),
                                   Step("adj_by_fitness", curr, fit, None, calc_N(fit)),
                                   Step("adj_by_drift", fit, drifted, max_drift,
                                        calc_N(fit))>>)

\* The trace of an invocation in which the override of lines 81-82 ran: it
\* holds a second adj_by_drift.
Overridden(t) == Cardinality({k \in 1..Len(t) : t[k].op = "adj_by_drift"}) = 2

\* The record of a calc_generation invocation: its arguments, who called it,
\* and genotype_data and the history length as they were on entry.
Invocation(i, bottleneck_yr, bottleneck_N, caller) ==
    [i |-> i, bottleneck_yr |-> bottleneck_yr, bottleneck_N |-> bottleneck_N,
     caller |-> caller, entering |-> genotype_data,
     entry_len |-> Len(gens_genotype_data)]

\* run(generations, bottleneck_yr, bottleneck_N): the guard, lines 55-56, and
\* entry to the loop.
run(generations, bottleneck_yr, bottleneck_N) ==
    /\ UNCHANGED <<completed, conc>>
    /\ pc = "idle"
    /\ Len(gens_genotype_data) + generations <= MaxHist
    /\ last_call' = "run"
    /\ IF data_missing(genotype_data)
       THEN /\ raised' = "ValueError"
            /\ pc' = "idle"
            /\ frame' = None
            /\ runs_sum' = None
       ELSE /\ raised' = "none"
            /\ pc' = "run"
            /\ runs_sum' = runs_sum
            /\ frame' = [generations |-> generations, bottleneck_yr |-> bottleneck_yr,
                         bottleneck_N |-> bottleneck_N, i |-> 0,
                         entry_len |-> Len(gens_genotype_data),
                         entry_data |-> genotype_data, produced |-> <<>>,
                         calls |-> <<>>, fired_at |-> <<>>]
    /\ UNCHANGED <<params, genotype_data, gens_genotype_data, cur, trace, invoked>>

\* One iteration of run's loop, lines 59-60: the body of calc_generation(i, ...).
run_iteration ==
    /\ UNCHANGED <<completed, conc>>
    /\ pc = "run"
    /\ frame.i < frame.generations
    /\ calc_generation(frame.i, frame.bottleneck_yr, frame.bottleneck_N)
    /\ cur' = Invocation(frame.i, frame.bottleneck_yr, frame.bottleneck_N, "run")
    /\ pc' = "calc"
    /\ frame' = [frame EXCEPT !.calls = Append(@, <<frame.i, frame.bottleneck_yr,
                                                     frame.bottleneck_N>>)]
    /\ UNCHANGED <<last_call, runs_sum>>

\* A caller's direct call of calc_generation: its body.
call_calc_generation(i, bottleneck_yr, bottleneck_N) ==
    /\ UNCHANGED <<completed, conc>>
    /\ pc = "idle"
    /\ last_call' = "calc_generation"
    /\ calc_generation(i, bottleneck_yr, bottleneck_N)
    /\ cur' = Invocation(i, bottleneck_yr, bottleneck_N, "caller")
    /\ pc' = "calc"
    /\ runs_sum' = None
    /\ UNCHANGED frame

\* calc_generation is over: it returns to run's loop or to the caller, or its
\* exception propagates through run to the caller.
calc_generation_exit ==
    /\ pc = "calc"
    /\ completed' = IF raised = "none" THEN completed + 1 ELSE completed
    /\ UNCHANGED conc
    /\ cur' = None
    /\ trace' = <<>>
    /\ runs_sum' = IF raised = "none" THEN runs_sum ELSE None
    /\ IF raised = "none" /\ cur.caller = "run"
       THEN /\ pc' = "run"
            /\ frame' = [frame EXCEPT !.i = @ + 1,
                                      !.produced = Append(@, genotype_data),
                                      !.fired_at = IF Overridden(trace)
                                                   THEN Append(@, cur.i) ELSE @]
       ELSE /\ pc' = "idle"
            /\ frame' = None
    /\ UNCHANGED <<params, genotype_data, gens_genotype_data, last_call, raised, invoked>>

\* The loop is over, line 62: return self._gens_genotype_data.
run_return ==
    /\ UNCHANGED <<completed, conc>>
    /\ pc = "run"
    /\ frame.i >= frame.generations
    /\ pc' = "idle"
    /\ frame' = None
    /\ runs_sum' = IF runs_sum = None THEN None
                   ELSE Some(Val(runs_sum) + frame.generations)
    /\ UNCHANGED <<params, genotype_data, gens_genotype_data, cur, trace, last_call,
                   raised, invoked>>

\* The caller sets the public attributes on the instance before its first call.
set_genotype_data(d) ==
    /\ UNCHANGED <<completed, conc>>
    /\ pc = "idle"
    /\ last_call = "none"
    /\ genotype_data' = d
    /\ UNCHANGED <<params, gens_genotype_data, pc, frame, cur, trace, last_call,
                   raised, invoked, runs_sum>>

set_growth_rate(r) ==
    /\ UNCHANGED <<completed, conc>>
    /\ pc = "idle"
    /\ last_call = "none"
    /\ growth_rate' = r
    /\ UNCHANGED <<carrying_capacity, max_drift, mutation_rate, genotype_data,
                   gens_genotype_data, pc, frame, cur, trace, last_call, raised, invoked,
                   runs_sum>>

set_carrying_capacity(c) ==
    /\ UNCHANGED <<completed, conc>>
    /\ pc = "idle"
    /\ last_call = "none"
    /\ carrying_capacity' = c
    /\ UNCHANGED <<growth_rate, max_drift, mutation_rate, genotype_data,
                   gens_genotype_data, pc, frame, cur, trace, last_call, raised, invoked,
                   runs_sum>>

set_max_drift(r) ==
    /\ UNCHANGED <<completed, conc>>
    /\ pc = "idle"
    /\ last_call = "none"
    /\ max_drift' = r
    /\ UNCHANGED <<growth_rate, carrying_capacity, mutation_rate, genotype_data,
                   gens_genotype_data, pc, frame, cur, trace, last_call, raised, invoked,
                   runs_sum>>

set_mutation_rate(r) ==
    /\ UNCHANGED <<completed, conc>>
    /\ pc = "idle"
    /\ last_call = "none"
    /\ mutation_rate' = r
    /\ UNCHANGED <<growth_rate, carrying_capacity, max_drift, genotype_data,
                   gens_genotype_data, pc, frame, cur, trace, last_call, raised, invoked,
                   runs_sum>>

Next ==
    \/ \E d \in InitialData : set_genotype_data(d)
    \/ \E r \in GrowthRates : set_growth_rate(r)
    \/ \E c \in CarryingCapacities : set_carrying_capacity(c)
    \/ \E r \in DriftRates : set_max_drift(r)
    \/ \E r \in MutationRates : set_mutation_rate(r)
    \/ \E g \in GenerationCounts : \E a \in BottleneckArgs : run(g, a[1], a[2])
    \/ run_iteration
    \/ run_return
    \/ \E i \in CallIndices : \E a \in BottleneckArgs :
           call_calc_generation(i, a[1], a[2])
    \/ calc_generation_exit

Spec == Init /\ [][Next]_vars

\* ------------------------------------------- interleaved calc_generation
\* Two calc_generation invocations on one instance whose statements
\* interleave. PopGen takes no lock, so a switch can fall between any two
\* accesses to the instance: line 70 loads self.genotype_data and then appends
\* it, line 72 reads the last entry, line 85 stores the synthesizer's result,
\* line 86 loads self.genotype_data and then stores the mutated data. Lines
\* 73-84 work on locals and on parameters no one sets meanwhile; they are
\* taken together with the store of line 85.
Threads == {1, 2}

\* The arguments of the interleaved invocations: without a bottleneck, and
\* with one at year 0.
ConcCalls == {<<0, None, None>>, <<0, Some(0), Some(1)>>}

Other(t) == 3 - t

\* An invocation before its first statement.
Called(c) ==
    [at |-> "called", i |-> c[1], bottleneck_yr |-> c[2], bottleneck_N |-> c[3],
     loaded |-> None, curr |-> None, result |-> None, seen |-> 0]

\* A Ready instance, its history empty, and two invocations about to start.
\* conc.stores counts the stores to genotype_data so far, conc.last_store is
\* the invocation that made the last one, conc.start the data they found;
\* an invocation's seen is the count of stores at its load of line 70.
InitConc ==
    /\ growth_rate \in GrowthRates
    /\ carrying_capacity \in CarryingCapacities
    /\ max_drift \in DriftRates
    /\ mutation_rate \in MutationRates
    /\ genotype_data \in InitialData
    /\ gens_genotype_data = <<>>
    /\ pc = "idle"
    /\ frame = None
    /\ cur = None
    /\ trace = <<>>
    /\ last_call = "calc_generation"
    /\ raised = "none"
    /\ invoked = 0
    /\ runs_sum = None
    /\ completed = 0
    /\ \E c1 \in ConcCalls : \E c2 \in ConcCalls :
           conc = [th |-> [t \in Threads |-> IF t = 1 THEN Called(c1) ELSE Called(c2)],
                   stores |-> 0, last_store |-> 0, start |-> genotype_data]

sequential == <<pc, frame, cur, trace, last_call, raised, invoked, runs_sum, completed>>

\* Line 70, first half: self.genotype_data is evaluated.
conc_load_data(t) ==
    /\ conc.th[t].at = "called"
    /\ conc' = [conc EXCEPT !.th[t].at = "loaded",
                            !.th[t].loaded = genotype_data,
                            !.th[t].seen = conc.stores]
    /\ UNCHANGED <<params, genotype_data, gens_genotype_data, sequential>>

\* Line 70, second half: the value is appended.
conc_append(t) ==
    /\ conc.th[t].at = "loaded"
    /\ gens_genotype_data' = history_append(gens_genotype_data, conc.th[t].loaded)
    /\ conc' = [conc EXCEPT !.th[t].at = "appended"]
    /\ UNCHANGED <<params, genotype_data, sequential>>

\* Line 72: curr_genotypes_data = self._gens_genotype_data[-1]
conc_read_last(t) ==
    /\ conc.th[t].at = "appended"
    /\ conc' = [conc EXCEPT !.th[t].at = "read",
                            !.th[t].curr = last_entry(gens_genotype_data)]
    /\ UNCHANGED <<params, genotype_data, gens_genotype_data, sequential>>

\* Lines 73-85 on the local curr: what the synthesizer can return.
synthesized(i, bottleneck_yr, bottleneck_N, curr) ==
    LET next_N == natural_next_N(curr)
        fires == bottleneck_test(i, bottleneck_yr, bottleneck_N, next_N) = "yes"
        adjusted == UNION {adj_by_drift(fit, max_drift, calc_N(fit), carrying_capacity) :
                              fit \in adj_by_fitness(curr)}
    IN  IF fires
        THEN UNION {calc_next_genotypes_data(b,
                        bottleneck_target(Val(bottleneck_N), next_N)) :
                    b \in UNION {adj_by_drift(d,
                                     bottleneck_rate(Val(bottleneck_N), next_N),
                                     Val(bottleneck_N), carrying_capacity) :
                                 d \in adjusted}}
        ELSE UNION {calc_next_genotypes_data(d, next_N) : d \in adjusted}

\* Lines 73-85: the store of line 85.
conc_store_next(t) ==
    /\ conc.th[t].at = "read"
    /\ natural_next_N(conc.th[t].curr) <= MaxN
    /\ \E synth \in synthesized(conc.th[t].i, conc.th[t].bottleneck_yr,
                                 conc.th[t].bottleneck_N, conc.th[t].curr) :
           genotype_data' = synth
    /\ conc' = [conc EXCEPT !.th[t].at = "stored", !.th[t].curr = None,
                            !.stores = @ + 1, !.last_store = t]
    /\ UNCHANGED <<params, gens_genotype_data, sequential>>

\* Line 86, first half: self.genotype_data is evaluated.
conc_load_for_mutation(t) ==
    /\ conc.th[t].at = "stored"
    /\ conc' = [conc EXCEPT !.th[t].at = "reloaded", !.th[t].loaded = genotype_data]
    /\ UNCHANGED <<params, genotype_data, gens_genotype_data, sequential>>

\* Line 86, second half: the mutated data is stored; the invocation is over.
conc_store_mutated(t) ==
    /\ conc.th[t].at = "reloaded"
    /\ \E mutated \in adj_by_mutation(conc.th[t].loaded, mutation_rate) :
           /\ genotype_data' = mutated
           /\ conc' = [conc EXCEPT !.th[t].at = "done", !.th[t].loaded = None,
                                   !.th[t].result = mutated,
                                   !.stores = @ + 1, !.last_store = t]
    /\ UNCHANGED <<params, gens_genotype_data, sequential>>

NextConc ==
    \/ \E t \in Threads : conc_load_data(t)
    \/ \E t \in Threads : conc_append(t)
    \/ \E t \in Threads : conc_read_last(t)
    \/ \E t \in Threads : conc_store_next(t)
    \/ \E t \in Threads : conc_load_for_mutation(t)
    \/ \E t \in Threads : conc_store_mutated(t)

SpecConc == InitConc /\ [][NextConc]_vars

\* ------------------------------------------------------------ properties
\* run's loop is over: run is about to return the history.
Returning == pc = "run" /\ frame.i >= frame.generations

\* calc_generation's body ran to its end without an exception.
CalcDone == pc = "calc" /\ raised = "none"

\* The natural next size of the data entering the invocation in progress.
NaturalOf(d) == calc_next_N(calc_N(d), growth_rate, carrying_capacity)

\* C1. History growth: when run(g) on a fresh Ready instance (data set, history
\* empty) is about to return, the history has exactly g entries and, for
\* g >= 1, its first entry is the genotype data set before the call.
C1_HistoryGrowth ==
    (Returning /\ frame.entry_len = 0) =>
        /\ Len(gens_genotype_data) = frame.generations
        /\ frame.generations >= 1 => gens_genotype_data[1] = frame.entry_data

C1_Witness ==
    /\ Returning
    /\ frame.entry_len = 0
    /\ frame.generations = 2
    /\ gens_genotype_data[2] # frame.entry_data
    /\ genotype_data # gens_genotype_data[2]

\* C2. Bottleneck floor: a calc_generation(i, y, b) with both y and b set that
\* completes leaves a generation of total size b when i = y and b is below the
\* natural next size, and of the natural next size otherwise.
C2_BottleneckFloor ==
    (CalcDone /\ cur.bottleneck_yr # None /\ cur.bottleneck_N # None) =>
        LET natural == NaturalOf(cur.entering)
            b == Val(cur.bottleneck_N)
        IN  IF Val(cur.bottleneck_yr) = cur.i /\ b < natural
            THEN calc_N(genotype_data) = b
            ELSE calc_N(genotype_data) = natural

C2_Witness ==
    /\ CalcDone
    /\ cur.bottleneck_yr = Some(1)
    /\ cur.i = 1
    /\ cur.bottleneck_N = Some(1)
    /\ NaturalOf(cur.entering) = 3
    /\ calc_N(genotype_data) = 1

\* C3. A run call made while genotype_data is unset ends with the
\* missing-data error, whatever its arguments, enters calc_generation not
\* once, and leaves the history and genotype_data as they were.
C3_RunUninitializedFails ==
    [][(pc = "idle" /\ genotype_data = None /\ last_call' = "run") =>
           /\ raised' = "ValueError"
           /\ pc' = "idle"
           /\ invoked' = invoked
           /\ gens_genotype_data' = gens_genotype_data
           /\ genotype_data' = genotype_data]_vars

C3_Witness ==
    /\ pc = "idle"
    /\ last_call = "run"
    /\ raised = "ValueError"
    /\ genotype_data = None
    /\ gens_genotype_data = <<>>
    /\ invoked = 0

\* C4. A direct calc_generation call made while genotype_data is unset ends
\* with the missing-data error, the error run reports in that state.
C4_CalcUninitializedMissingData ==
    (pc = "calc" /\ cur.entering = None) => raised = "ValueError"

\* A run is in progress: in its loop, or inside the calc_generation it called.
InRun == pc \in {"run", "calc"} /\ frame # None

\* C5. Carrying capacity bound: with carrying_capacity set to C, the generation
\* every completed calc_generation leaves in genotype_data has total size at
\* most C, and so has every history entry of a run after the run's first,
\* whatever the initial size, the growth rate and the bottleneck arguments.
C5_CarryingCapacityBound ==
    carrying_capacity # None =>
        /\ CalcDone => calc_N(genotype_data) <= Val(carrying_capacity)
        /\ InRun =>
             /\ \A k \in (frame.entry_len + 2)..Len(gens_genotype_data) :
                    calc_N(gens_genotype_data[k]) <= Val(carrying_capacity)
             /\ (pc = "run" /\ frame.i >= 1) =>
                    calc_N(genotype_data) <= Val(carrying_capacity)

C5_Witness ==
    /\ Returning
    /\ carrying_capacity = Some(2)
    /\ growth_rate = <<1, 1>>
    /\ calc_N(frame.entry_data) = 3
    /\ frame.generations = 2
    /\ calc_N(gens_genotype_data[2]) = 2
    /\ calc_N(genotype_data) = 2

\* C6. Size conservation: with growth_rate 0, no carrying capacity and no
\* bottleneck arguments, every history entry of a run and genotype_data after
\* each of its generations has the total count of the data the run started
\* from, and a direct calc_generation leaves the total count it found.
C6_SizeConservation ==
    (growth_rate[1] = 0 /\ carrying_capacity = None) =>
        /\ (InRun /\ frame.bottleneck_yr = None /\ frame.bottleneck_N = None) =>
             /\ \A k \in (frame.entry_len + 1)..Len(gens_genotype_data) :
                    calc_N(gens_genotype_data[k]) = calc_N(frame.entry_data)
             /\ calc_N(genotype_data) = calc_N(frame.entry_data)
        /\ (CalcDone /\ cur.bottleneck_yr = None /\ cur.bottleneck_N = None) =>
             calc_N(genotype_data) = calc_N(cur.entering)

C6_Witness ==
    /\ Returning
    /\ growth_rate[1] = 0
    /\ carrying_capacity = None
    /\ frame.bottleneck_yr = None
    /\ frame.bottleneck_N = None
    /\ frame.generations = 2
    /\ calc_N(frame.entry_data) = 3
    /\ genotype_data # frame.entry_data
    /\ gens_genotype_data[2] # gens_genotype_data[1]

IsPrefix(a, b) == Len(a) <= Len(b) /\ SubSeq(b, 1, Len(a)) = a

\* C7. Repeated runs accumulate: while every call so far was a run that
\* returned, the instance is Ready after each, the history length is the sum
\* of their generations, and no step changes or removes a history entry: the
\* history after an earlier call is a prefix of the history after a later one.
C7_RepeatedRunsAccumulate ==
    /\ [](runs_sum # None =>
            /\ (pc = "idle" /\ last_call = "run") =>
                 /\ genotype_data # None
                 /\ Len(gens_genotype_data) = Val(runs_sum)
            /\ Returning =>
                 /\ genotype_data # None
                 /\ Len(gens_genotype_data) = Val(runs_sum) + frame.generations)
    /\ [][IsPrefix(gens_genotype_data, gens_genotype_data')]_vars

C7_Witness ==
    /\ Returning
    /\ runs_sum = Some(1)
    /\ frame.entry_len = 1
    /\ frame.generations = 1
    /\ Len(gens_genotype_data) = 2
    /\ gens_genotype_data[2] # gens_genotype_data[1]

\* C8. Bottleneck parameter misuse: a calc_generation given bottleneck_yr
\* without bottleneck_N, or bottleneck_N without bottleneck_yr, completes
\* without an exception and leaves the natural next size, as a call given
\* neither does.
C8_MisuseIsNoBottleneck ==
    (/\ pc = "calc"
     /\ cur.entering # None
     /\ (cur.bottleneck_yr = None) # (cur.bottleneck_N = None)) =>
        /\ raised = "none"
        /\ calc_N(genotype_data) = NaturalOf(cur.entering)

\* The bottleneck override applies to the invocation in progress.
Fires ==
    /\ cur.bottleneck_yr # None
    /\ cur.bottleneck_N # None
    /\ Val(cur.bottleneck_yr) = cur.i
    /\ NaturalOf(cur.entering) > Val(cur.bottleneck_N)

Ops(t) == [k \in 1..Len(t) |-> t[k].op]

\* C9. Transform ordering: a calc_generation that completes has, after its
\* append, computed next_N from the data it entered with, applied fitness to
\* that data, drift at max_drift to the output of fitness, the bottleneck drift
\* to the output of drift exactly when the override applies, the synthesizer
\* at the target size to the output of the last drift, and mutation to the
\* synthesizer's output: each once, drift twice when the override applies.
C9_TransformOrdering ==
    CalcDone =>
        LET n == Len(trace)
            target == IF Fires THEN Val(cur.bottleneck_N) ELSE trace[2].n
        IN  /\ Ops(trace) =
                 IF Fires
                 THEN <<"append", "calc_next_N", "adj_by_fitness", "adj_by_drift",
                        "adj_by_drift", "calc_next_genotypes_data", "adj_by_mutation">>
                 ELSE <<"append", "calc_next_N", "adj_by_fitness", "adj_by_drift",
                        "calc_next_genotypes_data", "adj_by_mutation">>
            /\ trace[2].in = cur.entering
            /\ trace[2].n = NaturalOf(cur.entering)
            /\ trace[3].in = cur.entering
            /\ trace[4].in = trace[3].out
            /\ trace[4].rate = max_drift
            /\ trace[4].n = calc_N(trace[3].out)
            /\ \A k \in 5..n : trace[k].in = trace[k - 1].out
            /\ trace[n - 1].n = target
            /\ trace[n].rate = mutation_rate

C9_Witness ==
    /\ CalcDone
    /\ Fires
    /\ Len(trace) = 7
    /\ trace[3].out # trace[3].in
    /\ trace[4].out # trace[4].in
    /\ trace[5].out # trace[5].in
    /\ trace[7].out # trace[7].in

\* C10. Snapshot-before: the entry calc_generation appends is genotype_data as
\* it was on entry, appended before any transform; the post-mutation result
\* becomes genotype_data and enters the history only with the next
\* generation, so in a run each entry after the run's first is what the
\* generation before it produced, and the last generation's result is in
\* genotype_data and at no history position.
C10_SnapshotBefore ==
    /\ pc = "calc" =>
         /\ trace[1].op = "append"
         /\ trace[1].in = cur.entering
         /\ Len(gens_genotype_data) = cur.entry_len + 1
         /\ gens_genotype_data[Len(gens_genotype_data)] = cur.entering
    /\ CalcDone =>
         /\ trace[Len(trace)].op = "adj_by_mutation"
         /\ genotype_data = trace[Len(trace)].out
    /\ pc = "run" =>
         /\ Len(frame.produced) = frame.i
         /\ Len(gens_genotype_data) = frame.entry_len + frame.i
         /\ frame.i >= 1 => gens_genotype_data[frame.entry_len + 1] = frame.entry_data
         /\ \A k \in 1..(frame.i - 1) :
                gens_genotype_data[frame.entry_len + k + 1] = frame.produced[k]
         /\ frame.i >= 1 => genotype_data = frame.produced[frame.i]

C10_Witness ==
    /\ Returning
    /\ frame.generations = 2
    /\ mutation_rate # None
    /\ gens_genotype_data[2] # gens_genotype_data[1]
    /\ genotype_data # gens_genotype_data[2]

\* C11. Bottleneck override detail: a calc_generation in which the override
\* applies re-applies drift to the output of the max_drift drift (itself
\* applied to the output of fitness), at the rate 1 - bottleneck_N / natural
\* where natural is the next size calc_next_N gave, with bottleneck_N as its
\* population size; next_N is bottleneck_N only after that, for the
\* synthesizer.
C11_BottleneckOverride ==
    (CalcDone /\ Fires) =>
        LET natural == NaturalOf(cur.entering)
            b == Val(cur.bottleneck_N)
        IN  /\ Len(trace) = 7
            /\ trace[3].op = "adj_by_fitness"
            /\ trace[4].op = "adj_by_drift"
            /\ trace[4].in = trace[3].out
            /\ trace[5].op = "adj_by_drift"
            /\ trace[5].in = trace[4].out
            /\ trace[5].rate = <<natural - b, natural>>
            /\ trace[2].n = natural
            /\ trace[5].n = b
            /\ trace[6].op = "calc_next_genotypes_data"
            /\ trace[6].n = b

C11_Witness ==
    /\ CalcDone
    /\ Fires
    /\ NaturalOf(cur.entering) = 3
    /\ cur.bottleneck_N = Some(1)
    /\ trace[5].rate = <<2, 3>>
    /\ trace[5].n = 1
    /\ trace[5].out # trace[5].in
    /\ trace[4].out # trace[3].out

\* C12. One snapshot per completed generation: outside a calc_generation call
\* the history has as many entries as calc_generation calls have completed
\* without an exception, and every entry is genotype data, never the unset
\* value; a calc_generation call that fails has added no entry.
C12_OneSnapshotPerCompleted ==
    /\ pc # "calc" =>
         /\ Len(gens_genotype_data) = completed
         /\ \A k \in 1..Len(gens_genotype_data) : gens_genotype_data[k] # None
    /\ (pc = "calc" /\ raised # "none") =>
         Len(gens_genotype_data) = cur.entry_len

\* C13. Loop structure: a run(generations, y, b) on an instance with genotype
\* data set invokes calc_generation once for each i = 0, 1, ...,
\* generations - 1 in that order, each time with y and b, every invocation
\* completes so that the loop goes on to its end, and run then returns the
\* whole history; run(0) invokes nothing and leaves the history and
\* genotype_data as they were.
C13_RunLoop ==
    /\ InRun =>
         /\ frame.i <= frame.generations
         /\ Len(frame.calls) = IF pc = "calc" THEN frame.i + 1 ELSE frame.i
         /\ \A k \in 1..Len(frame.calls) :
                frame.calls[k] = <<k - 1, frame.bottleneck_yr, frame.bottleneck_N>>
    /\ (pc = "calc" /\ cur.caller = "run") => raised = "none"
    /\ Returning =>
         /\ Len(frame.calls) = frame.generations
         /\ Len(gens_genotype_data) = frame.entry_len + frame.generations
    /\ (Returning /\ frame.generations = 0) =>
         /\ frame.calls = <<>>
         /\ genotype_data = frame.entry_data

\* C14. Extinction is absorbing and not an error: a calc_generation entered
\* with genotype data of total size 0, with bottleneck_yr and bottleneck_N
\* both given or both left out (bottleneck_N >= 0), completes without an
\* exception, at any growth rate and carrying capacity, leaves genotype data
\* of total size 0, and has appended its entry to the history.
C14_ExtinctionAbsorbing ==
    (/\ pc = "calc"
     /\ cur.entering # None
     /\ calc_N(cur.entering) = 0
     /\ (cur.bottleneck_yr = None) = (cur.bottleneck_N = None)) =>
        /\ raised = "none"
        /\ calc_N(genotype_data) = 0
        /\ Len(gens_genotype_data) = cur.entry_len + 1
        /\ gens_genotype_data[Len(gens_genotype_data)] = cur.entering

C14_Witness ==
    /\ CalcDone
    /\ calc_N(cur.entering) = 0
    /\ growth_rate = <<1, 1>>
    /\ cur.bottleneck_yr = Some(cur.i)
    /\ cur.bottleneck_N = Some(0)
    /\ cur.entry_len = 1
    /\ calc_N(gens_genotype_data[1]) > 0
    /\ calc_N(genotype_data) = 0

\* Both interleaved invocations are over.
AllDone == conc # None /\ \A t \in Threads : conc.th[t].at = "done"

\* Both invocations took genotype_data for their append before either stored
\* to it.
Overlapped == \A t \in Threads : conc.th[t].seen = 0

\* C15. Concurrent use is unsafe: when two calc_generation invocations
\* interleave so that both take genotype_data for their append before either
\* stores to it, then once both are over the history holds the same snapshot
\* twice, the data the instance started with, and the result of neither
\* generation; genotype_data is the result stored last, so the result of the
\* other generation is overwritten and at no history position. Only when one
\* invocation starts after both stores of the other is the history the
\* snapshot followed by the first result, as in calls made one after the other.
C15_ConcurrentUnsafe ==
    AllDone =>
        /\ Len(gens_genotype_data) = 2
        /\ conc.last_store \in Threads
        /\ genotype_data = conc.th[conc.last_store].result
        /\ Overlapped => gens_genotype_data = <<conc.start, conc.start>>
        /\ \A t \in Threads :
               conc.th[Other(t)].seen = 2 =>
                   gens_genotype_data = <<conc.start, conc.th[t].result>>

C15_Witness ==
    /\ AllDone
    /\ Overlapped
    /\ gens_genotype_data[1] = gens_genotype_data[2]
    /\ conc.last_store = 2
    /\ genotype_data = conc.th[2].result
    /\ conc.th[1].result # conc.th[2].result
    /\ conc.th[1].result # gens_genotype_data[1]
    /\ conc.th[1].result # gens_genotype_data[2]

\* C16. The bottleneck year counts from the start of each run call: within one
\* run(generations, y, b) the override runs in at most one generation, the one
\* with i = y, never for y < 0 or y >= generations, and at most one
\* invocation of the call has i = y; the generation it runs in, counted from
\* the i = 0 of its own call, appends the history entry at index
\* (history length at the call's start) + y, so a later run call with the
\* same arguments can have it run again, at that index.
C16_BottleneckYearPerRun ==
    /\ InRun =>
         /\ Len(frame.fired_at) <= 1
         /\ \A k \in 1..Len(frame.fired_at) :
                /\ frame.bottleneck_yr # None
                /\ frame.fired_at[k] = Val(frame.bottleneck_yr)
         /\ frame.bottleneck_yr # None =>
                Cardinality({k \in 1..Len(frame.calls) :
                                frame.calls[k][1] = Val(frame.bottleneck_yr)}) <= 1
    /\ (pc = "calc" /\ cur.caller = "run" /\ Overridden(trace)) =>
         /\ frame.fired_at = <<>>
         /\ frame.bottleneck_yr # None
         /\ cur.i = Val(frame.bottleneck_yr)
         /\ Val(frame.bottleneck_yr) >= 0
         /\ Val(frame.bottleneck_yr) < frame.generations
         /\ Len(gens_genotype_data) - 1 = frame.entry_len + Val(frame.bottleneck_yr)

\* A second run(1, 0, 1): the first doubled size 1 to 2 and its override cut
\* the result to 1; the override runs again, at history index 1 + 0.
C16_Witness ==
    /\ CalcDone
    /\ cur.caller = "run"
    /\ Overridden(trace)
    /\ runs_sum = Some(1)
    /\ frame.entry_len = 1
    /\ frame.generations = 1
    /\ frame.bottleneck_yr = Some(0)
    /\ frame.bottleneck_N = Some(1)
    /\ growth_rate = <<1, 1>>
    /\ carrying_capacity = None
    /\ calc_N(gens_genotype_data[1]) = 1
    /\ calc_N(gens_genotype_data[2]) = 1
    /\ Len(gens_genotype_data) - 1 = 1 + 0

\* C17. The rate 1 - bottleneck_N / next_N is taken only where next_N >
\* bottleneck_N: with bottleneck_N >= 0 no invocation divides by a next_N of
\* 0, and the rate handed to the override's drift is above 0 and at most 1,
\* and is 1 exactly when bottleneck_N is 0.
C17_RateWellDefined ==
    /\ raised # "ZeroDivisionError"
    /\ (pc = "calc" /\ Overridden(trace)) =>
         LET rate == trace[5].rate
             b == Val(cur.bottleneck_N)
         IN  /\ trace[2].n > b
             /\ b >= 0
             /\ rate[2] = trace[2].n
             /\ rate[2] > 0
             /\ rate[1] > 0
             /\ rate[1] <= rate[2]
             /\ (rate[1] = rate[2]) = (b = 0)

C17_Witness ==
    /\ CalcDone
    /\ Overridden(trace)
    /\ cur.bottleneck_N = Some(0)
    /\ trace[5].rate = <<2, 2>>
    /\ calc_N(genotype_data) = 0

\* C18. Frame condition: no step of run or of calc_generation changes
\* growth_rate, carrying_capacity, max_drift or mutation_rate (of the
\* instance's fields they change only genotype_data and the history), and a
\* generation under way has been computed with the values these fields have:
\* its next size from growth_rate and carrying_capacity, its drift at
\* max_drift, its mutation at mutation_rate.
C18_ParametersFrame ==
    /\ []((pc = "calc" /\ Len(trace) >= 4) =>
            /\ trace[2].rate = growth_rate
            /\ trace[2].n = calc_next_N(calc_N(cur.entering), growth_rate,
                                        carrying_capacity)
            /\ trace[4].rate = max_drift
            /\ raised = "none" => trace[Len(trace)].rate = mutation_rate)
    /\ [][last_call' # "none" => UNCHANGED params]_vars

C18_Witness ==
    /\ Returning
    /\ frame.generations = 2
    /\ growth_rate = <<1, 1>>
    /\ carrying_capacity = Some(2)
    /\ max_drift = <<1, 2>>
    /\ mutation_rate # None
    /\ gens_genotype_data[2] # gens_genotype_data[1]
    /\ genotype_data # gens_genotype_data[2]

====
